---- MODULE Spec2Model ----
(***************************************************************************)
(* The agreement instance of dexon-consensus-core (core/agreement.go): its *)
(* round state, vote tally, quorum detection, fork detection, pending      *)
(* buffers with replay, the fast-forward mailbox and the three locks.      *)
(*                                                                         *)
(* Goroutines are the elements of Procs.  Every step of a goroutine is one *)
(* region of the code that runs without blocking: a region that blocks (a  *)
(* Lock, an RLock, a channel send) starts a new step whose guard is the    *)
(* condition under which the blocking call returns.  A read-locked region  *)
(* that only reads is one step, enabled when no writer holds the lock.     *)
(***************************************************************************)
EXTENDS Integers, Sequences, FiniteSets, TLC

\* ---------------------------------------------------------------- bounds
MaxCalls     == 3   \* calls of restart, processVote and processBlock made by
                    \* the one goroutine of Spec (done() is not counted)
MaxConcCalls == 2   \* the same, made by the goroutines of SpecConc together
MaxTicks     == 1   \* how often the clock advances

\* ------------------------------------------------------ program constants
ExpireSeconds == 10           \* restart keeps pending entries younger than this
MaxVoteType   == 3            \* types.MaxVoteType: Init, PreCom, Com
MailboxCap    == 1            \* make(chan uint64, 1)

\* ------------------------------------------------------------- universes
Procs   == {1, 2}             \* goroutines
NoProc  == 0
Nodes   == 1 .. 10            \* node identities

\* Chain IDs are only ever compared for equality: the chain this instance
\* serves, and math.MaxUint32, the chain ID of the stop position.
Chain     == "chain"
MaxUint32 == "MaxUint32"

VoteInit   == 0
VotePreCom == 1
VoteCom    == 2
VoteTypes  == 0 .. (MaxVoteType - 1)

nullBlockHash == "null"
skipBlockHash == "skip"
BlockHashes   == {"H1", "H2"}                 \* hashes of real blocks
Hashes        == {nullBlockHash, skipBlockHash} \cup BlockHashes

StopPosition == [ChainID |-> MaxUint32, Height |-> 0]
Pos(h)       == [ChainID |-> Chain, Height |-> h]
Positions    == {Pos(1), Pos(2)}

\* What restart is called with: a notary set and a position.  With two
\* notaries one vote is a quorum, with four three votes are.  stop() calls
\* restart with no notary set and the stop position.
StopArgs == <<{}, StopPosition>>

RestartArgs == {<<{1, 2}, Pos(1)>>, <<{1, 2}, Pos(2)>>, <<1 .. 4, Pos(1)>>, StopArgs}

\* The same, and larger notary sets.
WideRestartArgs == RestartArgs \cup {<<1 .. 7, Pos(1)>>, <<1 .. 10, Pos(1)>>}

VotesOf(n, pos, types, periods, hashes) ==
    [ProposerID : {n}, Position : {pos}, Period : periods, Type : types,
     BlockHash : hashes, Signed : {TRUE}]

\* The votes the network delivers.  Signed says whether verifyVoteSignature
\* accepts the vote.
Votes ==
    \* node 1, position 1: PreCom and Com votes of both periods
         VotesOf(1, Pos(1), {VotePreCom, VoteCom}, {1, 2}, {skipBlockHash, "H1"})
    \cup VotesOf(1, Pos(1), {VotePreCom}, {2}, {nullBlockHash})
    \cup VotesOf(1, Pos(1), {VoteCom}, {1}, {nullBlockHash})
    \cup VotesOf(1, Pos(1), {VotePreCom}, {3}, {"H1"})
    \* node 2, position 1: votes for another block, and one with node 1
    \cup VotesOf(2, Pos(1), {VotePreCom, VoteCom}, {1, 2}, {"H2"})
    \cup VotesOf(2, Pos(1), {VoteInit, VoteCom}, {1}, {"H1"})
    \* node 3, in the larger notary sets only
    \cup VotesOf(3, Pos(1), {VoteCom}, {1}, {"H1"})
    \* position 2
    \cup VotesOf(1, Pos(2), {VoteCom}, {1}, {skipBlockHash, "H1"})
    \cup VotesOf(2, Pos(2), {VotePreCom}, {2}, {"H1"})
    \* a vote whose signature does not verify
    \cup {[ProposerID |-> 1, Position |-> Pos(1), Period |-> 1,
           Type |-> VoteCom, BlockHash |-> "H2", Signed |-> FALSE]}

\* The votes delivered while several goroutines are calling.
ConcVotes ==
         VotesOf(1, Pos(1), {VoteCom}, {1}, {skipBlockHash, "H1"})
    \cup VotesOf(1, Pos(1), {VotePreCom}, {2, 3}, {"H1"})
    \cup VotesOf(2, Pos(1), {VoteInit, VoteCom}, {1}, {"H1"})
    \cup VotesOf(2, Pos(1), {VoteCom}, {1}, {"H2"})
    \cup VotesOf(1, Pos(2), {VoteCom}, {1}, {skipBlockHash})

\* The blocks the network delivers.
Blocks ==
    {[ProposerID |-> 1, Position |-> Pos(1), Hash |-> "H1"],
     [ProposerID |-> 1, Position |-> Pos(1), Hash |-> "H2"],
     [ProposerID |-> 2, Position |-> Pos(2), Hash |-> "H1"]}

NoVote  == [ProposerID |-> 0]
NoBlock == [ProposerID |-> 0, Hash |-> nullBlockHash]

\* ---------------------------------------------------------------- state
VARIABLES
    \* agreement (the instance)
    aID,            \* a.aID: the position being decided
    notarySet,      \* a.notarySet
    hasOutput,      \* a.hasOutput: the round is finalized
    pendingBlock,   \* a.pendingBlock: sequence of [block, receivedTime]
    pendingVote,    \* a.pendingVote: sequence of [vote, receivedTime]
    candidateBlock, \* a.candidateBlock: hash -> block
    fastForward,    \* a.fastForward: the buffered values of the channel
    state,          \* a.state: the sub-state the external state machine is in
    \* agreementData (the round state)
    lockValue, lockRound, period, requiredVote,
    votes,          \* a.data.votes: period -> type -> proposer -> vote
    blocks,         \* a.data.blocks: proposer -> block
    \* the three mutexes: the goroutine holding each for writing, or NoProc
    aLock, dataLock, blocksLock,
    \* the goroutines
    pc,             \* where each goroutine is
    arg,            \* the vote or block of the processVote/processBlock call it is in
    tmp,            \* a value the goroutine has read or is about to send
    rs,             \* the restart call the goroutine is in, if any
    ret,            \* what the goroutine's last call returned
    \* the environment
    now,            \* time.Now(), in seconds
    calls,          \* calls from outside that may still be made
    \* the Receiver, as it saw this round
    confirmed,      \* the ConfirmBlock calls: sequence of [hash, votes]
    pulled,         \* the PullBlocks calls: sequence of (hash -> how often it is listed)
    \* what the latest restart took out of the pending buffers for its replay
    replayed,       \* [blocks, votes]: the two sequences
    \* Storage (sqlvm), for one contract
    stateDB,        \* vm.StateDB: slot -> the 32 bytes GetState returns
    granted,        \* table -> the accounts inserted and not deleted since
    call            \* the latest InsertTableWriter/DeleteTableWriter call

instVars == <<aID, notarySet, hasOutput, pendingBlock, pendingVote,
              candidateBlock, fastForward, state>>
dataVars == <<lockValue, lockRound, period, requiredVote, votes, blocks>>
lockVars == <<aLock, dataLock, blocksLock>>
procVars == <<pc, arg, tmp, rs, ret>>
envVars  == <<now, calls>>
recvVars == <<confirmed, pulled>>
storageVars == <<stateDB, granted, call>>
vars == <<instVars, dataVars, lockVars, procVars, envVars, recvVars, replayed,
          storageVars>>

\* --------------------------------------------------------------- helpers
EmptyMap == <<>>

MapPut(m, k, v) == [x \in (DOMAIN m) \cup {k} |-> IF x = k THEN v ELSE m[x]]

\* newVoteListMap: one empty proposer -> vote map per vote type.
newVoteListMap == [t \in VoteTypes |-> EmptyMap]

isStop(pos) == pos.ChainID = MaxUint32

\* Position.Newer: pos is later than other on their chain.
Newer(pos, other) == pos.Height > other.Height

\* ---------------------------------------------------------------- Storage
\* common.HashLength and common.AddressLength, in bytes.
HashLength    == 32
AddressLength == 20
Uint64Length  == 8

\* The accounts: common.Address values, among them common.Address{}.
Address(k) == [i \in 1 .. AddressLength |-> IF i = AddressLength THEN k ELSE 0]
Accounts   == {Address(0), Address(1), Address(2)}
TableRefs  == {0, 1}

\* common.Hash{}: the value of a slot that was never set.
ZeroHash == [i \in 1 .. HashLength |-> 0]

\* uint64ToBytes and bytesToUint64: the 8 bytes of the number, the most
\* significant first, and back.  The numbers stored are list lengths, far
\* below 256 * 256 * 256, so the five leading bytes are 0.
uint64ToBytes(n) ==
    [i \in 1 .. Uint64Length |->
        IF i = Uint64Length THEN n % 256
        ELSE IF i = Uint64Length - 1 THEN (n \div 256) % 256
        ELSE IF i = Uint64Length - 2 THEN (n \div (256 * 256)) % 256
        ELSE 0]

bytesToUint64(b) ==
    (b[Uint64Length - 2] * 256 + b[Uint64Length - 1]) * 256 + b[Uint64Length]

\* var data common.Hash; copy(data[:8], uint64ToBytes(n)).
Uint64Slot(n) ==
    [i \in 1 .. HashLength |->
        IF i <= Uint64Length THEN uint64ToBytes(n)[i] ELSE 0]

\* addressToHash and hashToAddress: the address right aligned in the hash,
\* and the last 20 bytes of the hash.
addressToHash(a) ==
    [i \in 1 .. HashLength |->
        IF i <= HashLength - AddressLength THEN 0
        ELSE a[i - (HashLength - AddressLength)]]

hashToAddress(h) ==
    [i \in 1 .. AddressLength |-> h[i + (HashLength - AddressLength)]]

\* hashPathKey: the hash of a path key stands for itself, no two keys
\* having the same hash; ShiftHashListEntry adds headerSize + entrySize *
\* idx to it.
getTableWritersPathHash(t) == [key |-> <<"tables", t, "writers">>, shift |-> 0]

getTableWriterRevIdxPathHash(t, acc) ==
    [key |-> <<"tables", t, "writers", acc>>, shift |-> 0]

ShiftHashListEntry(base, headerSize, entrySize, idx) ==
    [base EXCEPT !.shift = @ + headerSize + entrySize * idx]

shiftTableWriterList(base, idx) == ShiftHashListEntry(base, 1, 1, idx)

\* GetState and SetState of the contract's slots: a slot that holds the
\* zero hash is a slot that is not set.
GetState(db, slot) == IF slot \in DOMAIN db THEN db[slot] ELSE ZeroHash

SetState(db, slot, value) ==
    IF value = ZeroHash
    THEN [x \in (DOMAIN db) \ {slot} |-> db[x]]
    ELSE MapPut(db, slot, value)

NoCall == [op |-> "none"]

\* No slot of the contract has been set.
InitStorage ==
    /\ stateDB = EmptyMap
    /\ granted = [t \in TableRefs |-> {}]
    /\ call = NoCall

\* One third of the notary set, rounded down, and one.
RequiredVoteThird(ns) == Cardinality(ns) \div 3 + 1

\* Two thirds of the notary set, rounded down, and one.
RequiredVoteRounded(ns) == (Cardinality(ns) * 2) \div 3 + 1

\* len(notarySet)/3*2 + 1 with Go's integer division.
RequiredVote(ns) == (Cardinality(ns) \div 3) * 2 + 1

NoRestart == [active |-> FALSE]
NoReplay  == [blocks |-> <<>>, votes |-> <<>>]
NoTmp     == <<>>

\* The tally restart leaves behind, were it to keep the votes it finds.
StaleVotes == votes

\* The tally restart makes, lines 147-148: an empty bucket for period 1.
FreshVotes == MapPut(EmptyMap, 1, newVoteListMap)

\* a.data.votes[vote.Period][vote.Type][vote.ProposerID] = vote, the period's
\* bucket being created when it is missing.
RecordVote(vs, v) ==
    LET bucket == IF v.Period \in DOMAIN vs THEN vs[v.Period] ELSE newVoteListMap
    IN  MapPut(vs, v.Period,
               [bucket EXCEPT ![v.Type] = MapPut(@, v.ProposerID, v)])

\* How many votes of the map m are for hash h.
CountFor(m, h) == Cardinality({n \in DOMAIN m : m[n].BlockHash = h})

\* countVoteNoLock asking for more than requiredVote votes.
CountVoteStrict(vs, per, type, req) ==
    IF per \notin DOMAIN vs
    THEN {[hash |-> nullBlockHash, ok |-> FALSE]}
    ELSE LET m    == vs[per][type]
             cand == {m[n].BlockHash : n \in DOMAIN m}
             win  == {h \in cand : CountFor(m, h) > req}
         IN  IF win = {}
             THEN {[hash |-> nullBlockHash, ok |-> FALSE]}
             ELSE {[hash |-> h, ok |-> TRUE] : h \in win}

\* countVoteNoLock: the results the call may return.  The candidates are
\* ranged over in map order, so any hash with enough votes may be the one
\* returned; without one the result is the zero hash and ok = false.
CountVoteNoLock(vs, per, type, req) ==
    IF per \notin DOMAIN vs
    THEN {[hash |-> nullBlockHash, ok |-> FALSE]}
    ELSE LET m    == vs[per][type]
             cand == {m[n].BlockHash : n \in DOMAIN m}
             win  == {h \in cand : CountFor(m, h) >= req}
         IN  IF win = {}
             THEN {[hash |-> nullBlockHash, ok |-> FALSE]}
             ELSE {[hash |-> h, ok |-> TRUE] : h \in win}

\* countVote: countVoteNoLock under the read lock of the round state.
countVote(per, type) == CountVoteNoLock(votes, per, type, requiredVote)

\* checkForkVote looking among the Commit votes whatever the vote's type.
ForkVoteOfCom(vs, v) ==
    IF /\ v.Period \in DOMAIN vs
       /\ v.ProposerID \in DOMAIN vs[v.Period][VoteCom]
       /\ vs[v.Period][VoteCom][v.ProposerID].BlockHash # v.BlockHash
    THEN {vs[v.Period][VoteCom][v.ProposerID]}
    ELSE {}

\* checkForkVote: the recorded vote that the vote v forks from, if any.
ForkVoteOf(vs, v) ==
    IF /\ v.Period \in DOMAIN vs
       /\ v.ProposerID \in DOMAIN vs[v.Period][v.Type]
       /\ vs[v.Period][v.Type][v.ProposerID].BlockHash # v.BlockHash
    THEN {vs[v.Period][v.Type][v.ProposerID]}
    ELSE {}

\* A call returns r: into restart's replay loop when restart made it.
Return(p, r) ==
    /\ pc'  = [pc EXCEPT ![p] = IF rs[p].active THEN "rs_replay" ELSE "idle"]
    /\ ret' = [ret EXCEPT ![p] = r]
    /\ arg' = [arg EXCEPT ![p] = NoVote]
    /\ tmp' = [tmp EXCEPT ![p] = NoTmp]

Goto(p, label) == pc' = [pc EXCEPT ![p] = label]

RLockable(l) == l = NoProc     \* RLock returns: no writer holds the mutex
Lockable(l)  == l = NoProc     \* Lock returns: nobody holds it (readers hold
                               \* it only within one step)

\* ------------------------------------------------------------------ Init
\* newAgreement: empty buffers and pool, then stop(), which is restart with
\* no notary set at the stop position; or a first restart(ns, pos) has
\* followed it.  n calls may be made.
InitWith(ns, pos, n) ==
    /\ aID = pos
    /\ notarySet = ns
    /\ hasOutput = FALSE
    /\ pendingBlock = <<>>
    /\ pendingVote = <<>>
    /\ candidateBlock = EmptyMap
    /\ fastForward = <<>>
    /\ state = "initial"
    /\ lockValue = nullBlockHash
    /\ lockRound = 1
    /\ period = 1
    /\ requiredVote = RequiredVote(ns)
    /\ votes = MapPut(EmptyMap, 1, newVoteListMap)
    /\ blocks = EmptyMap
    /\ aLock = NoProc /\ dataLock = NoProc /\ blocksLock = NoProc
    /\ pc = [p \in Procs |-> "idle"]
    /\ arg = [p \in Procs |-> NoVote]
    /\ tmp = [p \in Procs |-> NoTmp]
    /\ rs = [p \in Procs |-> NoRestart]
    /\ ret = [p \in Procs |-> "none"]
    /\ now = 0
    /\ calls = n
    /\ confirmed = <<>>
    /\ pulled = <<>>
    /\ replayed = NoReplay
    /\ InitStorage

Init == \E a \in RestartArgs : InitWith(a[1], a[2], MaxCalls)

InitConc == \E a \in RestartArgs : InitWith(a[1], a[2], MaxConcCalls)

\* ---------------------------------------------------------------- restart
\* A goroutine calls restart(ns, pos), and its a.lock.Lock() returns; stop()
\* is restart({}, StopPosition).
RestartCall(p, ns, pos) ==
    /\ pc[p] = "idle"
    /\ calls > 0
    /\ calls' = calls - 1
    /\ Lockable(aLock)
    /\ aLock' = p
    /\ Goto(p, "rs_lock2")
    /\ rs' = [rs EXCEPT ![p] = [active |-> TRUE, notarySet |-> ns, aID |-> pos,
                                expire |-> 0, replayBlock |-> <<>>,
                                replayVote |-> <<>>]]
    /\ ret' = [ret EXCEPT ![p] = "none"]
    /\ UNCHANGED <<instVars, dataVars, dataLock, blocksLock, arg, tmp, now,
                   recvVars, replayed, storageVars>>

\* a.data.lock.Lock()
RestartLockData(p) ==
    /\ pc[p] = "rs_lock2"
    /\ Lockable(dataLock)
    /\ dataLock' = p
    /\ Goto(p, "rs_lock3")
    /\ UNCHANGED <<instVars, dataVars, aLock, blocksLock, arg, tmp, rs, ret,
                   envVars, recvVars, replayed, storageVars>>

\* a.data.blocksLock.Lock(), the reset of the round, the three Unlocks, the
\* return of stop, and expireTime := time.Now().Add(-10 * time.Second).
RestartReset(p) ==
    /\ pc[p] = "rs_lock3"
    /\ Lockable(blocksLock)
    /\ votes' = FreshVotes
    /\ period' = 1
    /\ blocks' = EmptyMap
    /\ requiredVote' = RequiredVote(rs[p].notarySet)
    /\ lockValue' = nullBlockHash
    /\ lockRound' = 1
    /\ fastForward' = <<>>
    /\ hasOutput' = FALSE
    /\ state' = "initial"
    /\ notarySet' = rs[p].notarySet
    /\ candidateBlock' = EmptyMap
    /\ aID' = rs[p].aID
    /\ aLock' = NoProc /\ dataLock' = NoProc /\ blocksLock' = NoProc
    /\ confirmed' = <<>>
    /\ pulled' = <<>>
    /\ replayed' = NoReplay
    /\ UNCHANGED storageVars
    /\ IF isStop(rs[p].aID)
       THEN /\ rs' = [rs EXCEPT ![p] = NoRestart]
            /\ Goto(p, "idle")
            /\ ret' = [ret EXCEPT ![p] = "restarted"]
       ELSE /\ rs' = [rs EXCEPT ![p].expire = now - ExpireSeconds]
            /\ Goto(p, "rs_sweepB")
            /\ UNCHANGED ret
    /\ UNCHANGED <<pendingBlock, pendingVote, arg, tmp, envVars>>

\* SweepRule without the test of line 174: an entry of a position the
\* instance has passed is kept while it is fresh.
SweepRuleKeepsOld(newID, expire, pos, t) ==
    IF pos = newID THEN "replay"
    ELSE IF t > expire THEN "keep"
    ELSE "drop"

\* The rule of restart's sweep for one pending entry at position pos,
\* received at time t: "drop", "replay" or "keep".
SweepRule(newID, expire, pos, t) ==
    IF Newer(newID, pos) THEN "drop"
    ELSE IF pos = newID THEN "replay"
    ELSE IF t > expire THEN "keep"
    ELSE "drop"

\* First sweep, lines 169-181: a.lock.Lock(), then the loop over the
\* a.pendingBlock it finds.
RestartSweepBlocks(p) ==
    /\ pc[p] = "rs_sweepB"
    /\ Lockable(aLock)
    /\ aLock' = p
    /\ LET rule(e) == SweepRule(rs[p].aID, rs[p].expire, e.block.Position,
                                e.receivedTime)
       IN  /\ rs' = [rs EXCEPT ![p].replayBlock =
                        SelectSeq(pendingBlock, LAMBDA e : rule(e) = "replay")]
           /\ tmp' = [tmp EXCEPT ![p] =
                        SelectSeq(pendingBlock, LAMBDA e : rule(e) = "keep")]
           /\ replayed' = [replayed EXCEPT !.blocks =
                        SelectSeq(pendingBlock, LAMBDA e : rule(e) = "replay")]
    /\ UNCHANGED storageVars
    /\ Goto(p, "rs_sweepB2")
    /\ UNCHANGED <<instVars, dataVars, dataLock, blocksLock, arg, ret, envVars,
                   recvVars>>

\* a.pendingBlock = newPendingBlock, and the Unlock.
RestartStoreBlocks(p) ==
    /\ pc[p] = "rs_sweepB2"
    /\ pendingBlock' = tmp[p]
    /\ tmp' = [tmp EXCEPT ![p] = NoTmp]
    /\ aLock' = NoProc
    /\ Goto(p, "rs_sweepV")
    /\ UNCHANGED <<aID, notarySet, hasOutput, pendingVote, candidateBlock,
                   fastForward, state, dataVars, dataLock, blocksLock, arg, rs,
                   ret, envVars, recvVars, replayed, storageVars>>

\* Second sweep, lines 186-200, over a.pendingVote, all of it under a.lock.
RestartSweepVotes(p) ==
    /\ pc[p] = "rs_sweepV"
    /\ Lockable(aLock)
    /\ LET rule(e) == SweepRule(rs[p].aID, rs[p].expire, e.vote.Position,
                                e.receivedTime)
       IN  /\ rs' = [rs EXCEPT ![p].replayVote =
                        SelectSeq(pendingVote, LAMBDA e : rule(e) = "replay")]
           /\ pendingVote' = SelectSeq(pendingVote, LAMBDA e : rule(e) = "keep")
           /\ replayed' = [replayed EXCEPT !.votes =
                        SelectSeq(pendingVote, LAMBDA e : rule(e) = "replay")]
    /\ UNCHANGED storageVars
    /\ Goto(p, "rs_replay")
    /\ UNCHANGED <<aID, notarySet, hasOutput, pendingBlock, candidateBlock,
                   fastForward, state, dataVars, lockVars, arg, tmp, ret,
                   envVars, recvVars>>

\* restart returns, after its two replay loops (lines 202-208) have made
\* their calls: BlockReplay and VoteReplay below.
RestartReturn(p) ==
    /\ pc[p] = "rs_replay"
    /\ rs[p].replayBlock = <<>>
    /\ rs[p].replayVote = <<>>
    /\ rs' = [rs EXCEPT ![p] = NoRestart]
    /\ Goto(p, "idle")
    /\ ret' = [ret EXCEPT ![p] = "restarted"]
    /\ UNCHANGED <<instVars, dataVars, lockVars, arg, tmp, envVars, recvVars, replayed, storageVars>>

\* ------------------------------------------------------------ processVote
\* sanityCheck with the test of the lookup negated.
SanityCheckNegated(ns, v) ==
    IF v.ProposerID \in ns THEN "ErrNotInNotarySet"
    ELSE IF ~v.Signed THEN "ErrIncorrectVoteSignature"
    ELSE "nil"

\* sanityCheck's result for the vote v: the proposer is looked up in
\* a.notarySet, then verifyVoteSignature decides.
SanityCheck(ns, v) ==
    IF v.ProposerID \notin ns THEN "ErrNotInNotarySet"
    ELSE IF ~v.Signed THEN "ErrIncorrectVoteSignature"
    ELSE "nil"

\* processVote(v) starts, lines 289-292: sanityCheck reads a.notarySet under
\* a.lock.RLock, and its error is returned.
VoteSanity(p, v) ==
    /\ RLockable(aLock)
    /\ LET err == SanityCheck(notarySet, v)
       IN  IF err # "nil"
           THEN Return(p, err)
           ELSE /\ Goto(p, "pv_aid")
                /\ arg' = [arg EXCEPT ![p] = v]
                /\ ret' = [ret EXCEPT ![p] = "none"]
                /\ UNCHANGED tmp
    /\ UNCHANGED <<instVars, dataVars, lockVars, recvVars, replayed, storageVars>>

\* A goroutine calls processVote(v).
VoteCall(p, v) ==
    /\ pc[p] = "idle"
    /\ calls > 0
    /\ calls' = calls - 1
    /\ VoteSanity(p, v)
    /\ UNCHANGED <<rs, now>>

\* restart calls processVote with its next replayVote, line 207, once the
\* loop over replayBlock is through.
VoteReplay(p) ==
    /\ pc[p] = "rs_replay"
    /\ rs[p].replayBlock = <<>>
    /\ rs[p].replayVote # <<>>
    /\ rs' = [rs EXCEPT ![p].replayVote = Tail(@)]
    /\ VoteSanity(p, Head(rs[p].replayVote).vote)
    /\ UNCHANGED envVars

\* PositionRule with the comparison of line 297 turned round.
PositionRuleTurned(cur, pos) ==
    IF pos = cur THEN "process"
    ELSE IF ~isStop(cur) /\ Newer(pos, cur) THEN "drop"
    ELSE "buffer"

\* What processVote and processBlock do with a message at position pos when
\* the instance is at cur: "process", "drop" (stale) or "buffer".
PositionRule(cur, pos) ==
    IF pos = cur THEN "process"
    ELSE IF ~isStop(cur) /\ Newer(cur, pos) THEN "drop"
    ELSE "buffer"

\* aID := a.agreementID() under a.lock.RLock, and the comparison with
\* vote.Position, lines 293-300.
VotePosition(p) ==
    /\ pc[p] = "pv_aid"
    /\ RLockable(aLock)
    /\ LET rule == PositionRule(aID, arg[p].Position)
       IN  CASE rule = "drop"    -> Return(p, "nil")
             [] rule = "buffer"  -> Goto(p, "pv_pend") /\ UNCHANGED <<arg, tmp, ret>>
             [] rule = "process" -> Goto(p, "pv_fork") /\ UNCHANGED <<arg, tmp, ret>>
    /\ UNCHANGED <<instVars, dataVars, lockVars, rs, envVars, recvVars, replayed, storageVars>>

\* Lines 301-307: a.lock.Lock(), the append to a.pendingVote, the Unlock.
VoteBuffer(p) ==
    /\ pc[p] = "pv_pend"
    /\ Lockable(aLock)
    /\ pendingVote' = Append(pendingVote, [vote |-> arg[p], receivedTime |-> now])
    /\ Return(p, "nil")
    /\ UNCHANGED <<aID, notarySet, hasOutput, pendingBlock, candidateBlock,
                   fastForward, state, dataVars, lockVars, rs, envVars, recvVars, replayed, storageVars>>

\* checkForkVote, lines 309-311, under a.data.lock.RLock.
VoteForkCheck(p) ==
    /\ pc[p] = "pv_fork"
    /\ RLockable(dataLock)
    /\ IF ForkVoteOf(votes, arg[p]) # {}
       THEN Return(p, "ErrForkVote")
       ELSE Goto(p, "pv_lock") /\ UNCHANGED <<arg, tmp, ret>>
    /\ UNCHANGED <<instVars, dataVars, lockVars, rs, envVars, recvVars, replayed, storageVars>>

\* Confirms without the test of a.hasOutput.
ConfirmsAgain(out, v, r) ==
    v.Type = VoteCom /\ r.ok /\ r.hash # skipBlockHash

\* Line 319-321: the Commit votes of the vote's period confirm a block.
Confirms(out, v, r) ==
    ~out /\ v.Type = VoteCom /\ r.ok /\ r.hash # skipBlockHash

\* Line 327 never taken: the fast-forward conditions are evaluated in a
\* finalized round too.
IgnoresNever(out) == FALSE

\* Line 327: in a finalized round processVote returns nil once the vote is
\* recorded.
Ignores(out) == out

\* Condition 1 without the comparison with the current period.
Condition1Early(v, per, lround, lvalue) ==
    v.Period > lround /\ v.BlockHash # lvalue

\* Condition 1, lines 336-337.
Condition1(v, per, lround, lvalue) ==
    per >= v.Period /\ v.Period > lround /\ v.BlockHash # lvalue

\* Condition 2, line 344.
Condition2(v, per) == v.Period > per

\* Condition 3, lines 353-354.
Condition3(v, per, vs, req) ==
    /\ v.Type = VoteCom
    /\ v.Period >= per
    /\ Cardinality(DOMAIN vs[v.Period][VoteCom]) >= req

\* Post with the value one too small.
PostBelow(p, val) ==
    /\ tmp' = [tmp EXCEPT ![p] = val - 1]
    /\ Goto(p, "pv_send")
    /\ dataLock' = p
    /\ UNCHANGED <<arg, ret>>

\* The goroutine, holding a.data.lock, goes on to post val to the mailbox.
Post(p, val) ==
    /\ tmp' = [tmp EXCEPT ![p] = val]
    /\ Goto(p, "pv_send")
    /\ dataLock' = p
    /\ UNCHANGED <<arg, ret>>

\* The goroutine returns nil from the locked part of processVote.
Leave(p) == Return(p, "nil") /\ dataLock' = NoProc

\* Lines 313-354: a.data.lock.Lock(), the vote is recorded, then the round
\* is finalized, or the lock value moves and a fast-forward is due, or the
\* blocks of the period are to be pulled, or nothing more happens.
VoteRecord(p) ==
    /\ pc[p] = "pv_lock"
    /\ Lockable(dataLock)
    /\ LET v   == arg[p]
           vs  == RecordVote(votes, v)
       IN
       /\ votes' = vs
       /\ \E r \in CountVoteNoLock(vs, v.Period, v.Type, requiredVote) :
            IF Confirms(hasOutput, v, r)
            THEN /\ hasOutput' = TRUE
                 /\ confirmed' = Append(confirmed,
                        [hash |-> r.hash, votes |-> vs[v.Period][VoteCom]])
                 /\ Leave(p)
                 /\ UNCHANGED <<lockValue, lockRound>>
            ELSE IF Ignores(hasOutput)
            THEN /\ Leave(p)
                 /\ UNCHANGED <<hasOutput, confirmed, lockValue, lockRound>>
            ELSE IF /\ v.Type = VotePreCom /\ r.ok /\ r.hash # skipBlockHash
                    /\ Condition1(v, period, lockRound, lockValue)
            THEN /\ lockValue' = r.hash
                 /\ lockRound' = v.Period
                 /\ Post(p, period + 1)
                 /\ UNCHANGED <<hasOutput, confirmed>>
            ELSE IF /\ v.Type = VotePreCom /\ r.ok /\ r.hash # skipBlockHash
                    /\ Condition2(v, period)
            THEN /\ lockValue' = r.hash
                 /\ lockRound' = v.Period
                 /\ Post(p, v.Period)
                 /\ UNCHANGED <<hasOutput, confirmed>>
            ELSE IF Condition3(v, period, vs, requiredVote)
            THEN /\ Goto(p, "pv_pull")
                 /\ dataLock' = p
                 /\ UNCHANGED <<arg, tmp, ret, hasOutput, confirmed, lockValue,
                                lockRound>>
            ELSE /\ Leave(p)
                 /\ UNCHANGED <<hasOutput, confirmed, lockValue, lockRound>>
    /\ UNCHANGED <<aID, notarySet, pendingBlock, pendingVote, candidateBlock,
                   fastForward, state, period, requiredVote, blocks, aLock,
                   blocksLock, rs, envVars, pulled, replayed, storageVars>>

\* The votes of the period per that addPullBlocks ranges over: those of
\* type Init, PreCom and Com whose hash is neither null nor skip.
PullVotes(vs, per) ==
    {<<t, n>> \in {VoteInit, VotePreCom, VoteCom} \X Nodes :
        /\ n \in DOMAIN vs[per][t]
        /\ vs[per][t][n].BlockHash \notin {nullBlockHash, skipBlockHash}}

\* The hashes handed to PullBlocks, lines 355-368: one entry for each vote
\* of PullVotes whose block findCandidateBlock does not find; as a map from
\* each listed hash to the number of its entries.
PullHashes(vs, per, pool) ==
    LET missing == {tn \in PullVotes(vs, per) :
                        vs[per][tn[1]][tn[2]].BlockHash \notin DOMAIN pool}
        listed  == {vs[per][tn[1]][tn[2]].BlockHash : tn \in missing}
    IN  [h \in listed |->
            Cardinality({tn \in missing : vs[per][tn[1]][tn[2]].BlockHash = h})]

\* Lines 355-369: every findCandidateBlock read-locks a.lock; then
\* PullBlocks is called.
VotePull(p) ==
    /\ pc[p] = "pv_pull"
    /\ PullVotes(votes, arg[p].Period) # {} => RLockable(aLock)
    /\ pulled' = Append(pulled, PullHashes(votes, arg[p].Period, candidateBlock))
    /\ tmp' = [tmp EXCEPT ![p] = arg[p].Period + 1]
    /\ Goto(p, "pv_send")
    /\ UNCHANGED <<instVars, dataVars, lockVars, arg, rs, ret, envVars, confirmed, replayed, storageVars>>

\* a.fastForward <- value, lines 340, 347 and 370: the send returns once
\* the channel's buffer has room; then processVote returns nil.
VoteSend(p) ==
    /\ pc[p] = "pv_send"
    /\ Len(fastForward) < MailboxCap
    /\ fastForward' = Append(fastForward, tmp[p])
    /\ Leave(p)
    /\ UNCHANGED <<aID, notarySet, hasOutput, pendingBlock, pendingVote,
                   candidateBlock, state, dataVars, aLock, blocksLock, rs,
                   envVars, recvVars, replayed, storageVars>>

\* ----------------------------------------------------------- processBlock
\* processBlock(b) starts, lines 396-398: a.data.blocksLock.Lock() returns.
BlockLock(p, b) ==
    /\ Lockable(blocksLock)
    /\ blocksLock' = p
    /\ arg' = [arg EXCEPT ![p] = b]
    /\ ret' = [ret EXCEPT ![p] = "none"]
    /\ Goto(p, "pb_aid")
    /\ UNCHANGED <<instVars, dataVars, aLock, dataLock, tmp, recvVars, replayed, storageVars>>

\* A goroutine calls processBlock(b).
BlockCall(p, b) ==
    /\ pc[p] = "idle"
    /\ calls > 0
    /\ calls' = calls - 1
    /\ BlockLock(p, b)
    /\ UNCHANGED <<rs, now>>

\* restart calls processBlock with its next replayBlock, line 203.
BlockReplay(p) ==
    /\ pc[p] = "rs_replay"
    /\ rs[p].replayBlock # <<>>
    /\ rs' = [rs EXCEPT ![p].replayBlock = Tail(@)]
    /\ BlockLock(p, Head(rs[p].replayBlock).block)
    /\ UNCHANGED envVars

\* BlockForkRule letting a different block of the proposer through.
BlockForkRuleLax(bs, b) ==
    IF b.ProposerID \in DOMAIN bs /\ bs[b.ProposerID].Hash = b.Hash
    THEN "nil"
    ELSE "new"

\* Lines 414-419: what the block already recorded for b's proposer makes of
\* b: "ErrFork", "nil" (the same block again) or "new".
BlockForkRule(bs, b) ==
    IF b.ProposerID \in DOMAIN bs
    THEN IF bs[b.ProposerID].Hash # b.Hash THEN "ErrFork" ELSE "nil"
    ELSE "new"

\* Lines 400-423: aID := a.agreementID() under a.lock.RLock and the
\* comparison with block.Position; for a block of the current position the
\* fork check, the leader selector's verdict (either one) and the entry in
\* a.data.blocks.
BlockPosition(p) ==
    /\ pc[p] = "pb_aid"
    /\ RLockable(aLock)
    /\ LET b    == arg[p]
           rule == PositionRule(aID, b.Position)
           fork == BlockForkRule(blocks, b)
       IN  CASE rule = "drop" ->
                  /\ Return(p, "nil") /\ blocksLock' = NoProc
                  /\ UNCHANGED blocks
             [] rule = "buffer" ->
                  /\ Goto(p, "pb_read")
                  /\ UNCHANGED <<arg, tmp, ret, blocksLock, blocks>>
             [] rule = "process" /\ fork # "new" ->
                  /\ Return(p, fork) /\ blocksLock' = NoProc
                  /\ UNCHANGED blocks
             [] rule = "process" /\ fork = "new" ->
                  \/ /\ Return(p, "ErrLeader") /\ blocksLock' = NoProc
                     /\ UNCHANGED blocks
                  \/ /\ blocks' = MapPut(blocks, b.ProposerID, b)
                     /\ Goto(p, "pb_add")
                     /\ UNCHANGED <<arg, tmp, ret, blocksLock>>
    /\ UNCHANGED <<instVars, lockValue, lockRound, period, requiredVote, votes,
                   aLock, dataLock, rs, envVars, recvVars, replayed, storageVars>>

\* Line 408, first half: a.pendingBlock and time.Now() are read; a.lock is
\* not held.
BlockRead(p) ==
    /\ pc[p] = "pb_read"
    /\ tmp' = [tmp EXCEPT ![p] = [read |-> pendingBlock, time |-> now]]
    /\ Goto(p, "pb_write")
    /\ UNCHANGED <<instVars, dataVars, lockVars, arg, rs, ret, envVars, recvVars, replayed, storageVars>>

\* Line 408, second half: a.pendingBlock is set to what was read with the
\* block appended; processBlock returns nil.
BlockWrite(p) ==
    /\ pc[p] = "pb_write"
    /\ pendingBlock' = Append(tmp[p].read,
                              [block |-> arg[p], receivedTime |-> tmp[p].time])
    /\ Return(p, "nil")
    /\ blocksLock' = NoProc
    /\ UNCHANGED <<aID, notarySet, hasOutput, pendingVote, candidateBlock,
                   fastForward, state, dataVars, aLock, dataLock, rs, envVars,
                   recvVars, replayed, storageVars>>

\* addCandidateBlock leaving the pool as it is.
addCandidateBlockNot(pool, b) == pool

\* Line 431: a.candidateBlock[block.Hash] = block.
addCandidateBlock(pool, b) == MapPut(pool, b.Hash, b)

\* addCandidateBlock, lines 424-425 and 428-432, under a.lock.Lock; then
\* processBlock returns nil.
BlockAdd(p) ==
    /\ pc[p] = "pb_add"
    /\ Lockable(aLock)
    /\ candidateBlock' = addCandidateBlock(candidateBlock, arg[p])
    /\ Return(p, "nil")
    /\ blocksLock' = NoProc
    /\ UNCHANGED <<aID, notarySet, hasOutput, pendingBlock, pendingVote,
                   fastForward, state, dataVars, aLock, dataLock, rs, envVars,
                   recvVars, replayed, storageVars>>

\* ------------------------------------------------------------------- done
\* setPeriod making a new bucket for every period from the old one + 1 to
\* per, whether or not the period has one.
SetPeriodVotesAnew(vs, old, per) ==
    [i \in (DOMAIN vs) \cup ((old + 1) .. per) |->
        IF i \in (old + 1) .. per THEN newVoteListMap ELSE vs[i]]

\* setPeriod: a bucket for every period from the old one + 1 to per that
\* has none yet.
SetPeriodVotes(vs, old, per) ==
    [i \in (DOMAIN vs) \cup ((old + 1) .. per) |->
        IF i \in DOMAIN vs THEN vs[i] ELSE newVoteListMap]

\* done() adopting whatever period the mailbox holds.
AdoptsAny(value, per) == TRUE

\* Line 383, negated: done() adopts the period it took from the mailbox.
Adopts(value, per) == value > per

\* done() is called, lines 377-379: a.hasOutput is read, no lock held.
DoneCall(p) ==
    /\ pc[p] = "idle"
    /\ IF hasOutput
       THEN Return(p, "signal")
       ELSE /\ Goto(p, "dn_recv")
            /\ ret' = [ret EXCEPT ![p] = "none"]
            /\ UNCHANGED <<arg, tmp>>
    /\ UNCHANGED <<instVars, dataVars, lockVars, rs, envVars, recvVars, replayed, storageVars>>

\* The select of lines 381-390: a value in the mailbox is taken out, and a
\* period later than the current one is adopted; no lock held.
DoneReceive(p) ==
    /\ pc[p] = "dn_recv"
    /\ IF fastForward # <<>>
       THEN /\ fastForward' = Tail(fastForward)
            /\ IF Adopts(Head(fastForward), period)
               THEN /\ votes' = SetPeriodVotes(votes, period, Head(fastForward))
                    /\ period' = Head(fastForward)
                    /\ state' = "preCommit"
                    /\ Return(p, "signal")
               ELSE /\ Return(p, "nosignal")
                    /\ UNCHANGED <<votes, period, state>>
       ELSE /\ Return(p, "nosignal")
            /\ UNCHANGED <<fastForward, votes, period, state>>
    /\ UNCHANGED <<aID, notarySet, hasOutput, pendingBlock, pendingVote,
                   candidateBlock, lockValue, lockRound, requiredVote, blocks,
                   lockVars, rs, envVars, recvVars, replayed, storageVars>>

\* ------------------------------------------------------------ environment
\* Some time stamp is held: by a pending entry, by a processBlock that has
\* read the clock, or by a restart that has computed its expireTime.
TimeStamped ==
    \/ pendingBlock # <<>>
    \/ pendingVote # <<>>
    \/ \E p \in Procs : pc[p] = "pb_write" \/ rs[p].active

\* Time passes.  Only the distance between time stamps is ever observed, so
\* the clock is let stand while there is none.
Tick ==
    /\ now < MaxTicks * ExpireSeconds
    /\ TimeStamped
    /\ now' = now + ExpireSeconds
    /\ UNCHANGED <<instVars, dataVars, lockVars, procVars, calls, recvVars, replayed, storageVars>>

\* ------------------------------------------------------------------- Next
Step(p, ras, vs) ==
    \/ \E a \in ras : RestartCall(p, a[1], a[2])
    \/ RestartLockData(p)
    \/ RestartReset(p)
    \/ RestartSweepBlocks(p)
    \/ RestartStoreBlocks(p)
    \/ RestartSweepVotes(p)
    \/ BlockReplay(p)
    \/ VoteReplay(p)
    \/ RestartReturn(p)
    \/ \E v \in vs : VoteCall(p, v)
    \/ VotePosition(p)
    \/ VoteBuffer(p)
    \/ VoteForkCheck(p)
    \/ VoteRecord(p)
    \/ VotePull(p)
    \/ VoteSend(p)
    \/ \E b \in Blocks : BlockCall(p, b)
    \/ BlockPosition(p)
    \/ BlockRead(p)
    \/ BlockWrite(p)
    \/ BlockAdd(p)
    \/ DoneCall(p)
    \/ DoneReceive(p)

\* One goroutine makes all the calls, one after the other.
Next == Step(1, WideRestartArgs, Votes) \/ Tick

Spec == Init /\ [][Next]_vars

\* The goroutines of Procs make their calls concurrently.
NextConc == (\E p \in Procs : Step(p, RestartArgs, ConcVotes)) \/ Tick

SpecConc == InitConc /\ [][NextConc]_vars

\* ---------------------------------------------------------------- Storage
\* loadTableWriterRevIdx: IndexToValuesOffset of the slot at path.
loadTableWriterRevIdx(db, path) ==
    bytesToUint64([i \in 1 .. Uint64Length |-> GetState(db, path)[i]])

\* tableWriterRevIdx.Valid
Valid(rev) == rev # 0

\* loadTableWriters with onlyHeader: the Length of the header slot.
loadTableWritersLength(db, path) ==
    bytesToUint64([i \in 1 .. Uint64Length |-> GetState(db, path)[i]])

loadSingleTableWriter(db, path, idx) ==
    hashToAddress(GetState(db, shiftTableWriterList(path, idx)))

storeSingleTableWriter(db, path, idx, acc) ==
    SetState(db, shiftTableWriterList(path, idx), addressToHash(acc))

storeTableWritersHeader(db, path, len) == SetState(db, path, Uint64Slot(len))

storeTableWriterRevIdx(db, path, rev) == SetState(db, path, Uint64Slot(rev))

\* IsTableWriter and LoadTableWriters.
IsTableWriter(db, t, acc) ==
    Valid(loadTableWriterRevIdx(db, getTableWriterRevIdxPathHash(t, acc)))

LoadTableWriters(db, t) ==
    LET path == getTableWritersPathHash(t)
    IN  [i \in 1 .. loadTableWritersLength(db, path) |->
            loadSingleTableWriter(db, path, i - 1)]

\* The slots after InsertTableWriter(contract, t, acc).
InsertTableWriterSlots(db, t, acc) ==
    LET revPath == getTableWriterRevIdxPathHash(t, acc)
        rev     == loadTableWriterRevIdx(db, revPath)
        path    == getTableWritersPathHash(t)
        len     == loadTableWritersLength(db, path)
        db1     == storeSingleTableWriter(db, path, len, acc)
        db2     == storeTableWritersHeader(db1, path, len + 1)
    IN  IF Valid(rev) THEN db
        ELSE storeTableWriterRevIdx(db2, revPath, len + 1)

\* "Move last to deleted slot" leaving the reverse index of the moved
\* account as it is.
MoveLastKeepsIndex(db, t, rev, len) ==
    LET path    == getTableWritersPathHash(t)
        lastAcc == loadSingleTableWriter(db, path, len - 1)
    IN  storeSingleTableWriter(db, path, rev - 1, lastAcc)

\* Lines 505-510, "Move last to deleted slot": the last account of the
\* list is stored at the index of the deleted one and gets its reverse
\* index.
MoveLast(db, t, rev, len) ==
    LET path    == getTableWritersPathHash(t)
        lastAcc == loadSingleTableWriter(db, path, len - 1)
        db1     == storeSingleTableWriter(db, path, rev - 1, lastAcc)
    IN  storeTableWriterRevIdx(db1, getTableWriterRevIdxPathHash(t, lastAcc), rev)

\* The slots after DeleteTableWriter(contract, t, acc).
DeleteTableWriterSlots(db, t, acc) ==
    LET revPath == getTableWriterRevIdxPathHash(t, acc)
        rev     == loadTableWriterRevIdx(db, revPath)
        path    == getTableWritersPathHash(t)
        len     == loadTableWritersLength(db, path)
        db1     == IF rev # len THEN MoveLast(db, t, rev, len) ELSE db
        db2     == storeTableWritersHeader(db1, path, len - 1)
        db3     == storeSingleTableWriter(db2, path, len - 1, Address(0))
    IN  IF ~Valid(rev) THEN db
        ELSE storeTableWriterRevIdx(db3, revPath, 0)

\* What no call on Storage touches.
agreementVars ==
    <<instVars, dataVars, lockVars, procVars, envVars, recvVars, replayed>>

InsertTableWriter(t, acc) ==
    /\ stateDB' = InsertTableWriterSlots(stateDB, t, acc)
    /\ granted' = [granted EXCEPT ![t] = @ \cup {acc}]
    /\ call' = [op |-> "insert", table |-> t, account |-> acc]
    /\ UNCHANGED agreementVars

DeleteTableWriter(t, acc) ==
    /\ stateDB' = DeleteTableWriterSlots(stateDB, t, acc)
    /\ granted' = [granted EXCEPT ![t] = @ \ {acc}]
    /\ call' = [op |-> "delete", table |-> t, account |-> acc]
    /\ UNCHANGED agreementVars

\* A Storage over a state in which no slot of the contract is set; the
\* agreement instance, newly made and stopped, takes no call.
InitWriters == InitWith({}, StopPosition, 0)

NextWriters ==
    \/ \E t \in TableRefs : \E acc \in Accounts : InsertTableWriter(t, acc)
    \/ \E t \in TableRefs : \E acc \in Accounts : DeleteTableWriter(t, acc)

SpecWriters == InitWriters /\ [][NextWriters]_vars

\* ------------------------------------------------------------ the tally
\* Filling one bucket of the tally: the instance has been restarted at
\* position 1 with the notary set 1 .. n, for any n up to MaxNotaries, and
\* one goroutine calls processVote with PreCommit votes of period 1, one
\* call after the other.
MaxNotaries   == 5
MaxTallyCalls == 5

TallyVotes ==
    [ProposerID : 1 .. MaxNotaries, Position : {Pos(1)}, Period : {1},
     Type : {VotePreCom}, BlockHash : BlockHashes, Signed : {TRUE}]

InitTally == \E n \in 1 .. MaxNotaries : InitWith(1 .. n, Pos(1), MaxTallyCalls)

NextTally ==
    \/ \E v \in TallyVotes : VoteCall(1, v)
    \/ VotePosition(1)
    \/ VoteForkCheck(1)
    \/ VoteRecord(1)

SpecTally == InitTally /\ [][NextTally]_vars

\* ============================================================ properties
\* The Commit votes recorded for period per, wherever the period has a bucket.
ComVotes(per) == IF per \in DOMAIN votes THEN votes[per][VoteCom] ELSE EmptyMap

\* The hashes that have a quorum among the votes of the map m.
QuorumHashes(m) == {h \in Hashes : CountFor(m, h) >= requiredVote}

\* ------------------------------------------------------------------- C1
\* C1: within one round ConfirmBlock is called at most once, whatever
\* Commit votes arrive after the call, for whatever hash and period.
C1_ConfirmAtMostOnce == Len(confirmed) <= 1

\* A round that has confirmed one hash and holds a quorum of Commit votes
\* for another block.
C1_Witness ==
    /\ Len(confirmed) = 1
    /\ \E per \in DOMAIN votes :
          QuorumHashes(ComVotes(per)) \ {skipBlockHash, confirmed[1].hash} # {}

\* The goroutine p leaves the step at label l in this transition.
Leaves(p, l) == pc[p] = l /\ pc'[p] # l

\* The state of the instance and of its round, and what the Receiver saw.
Untouched == UNCHANGED <<instVars, dataVars, recvVars>>

\* No goroutine is inside processVote.
NoVoteInProgress ==
    \A p \in Procs :
        pc[p] \notin {"pv_aid", "pv_pend", "pv_fork", "pv_lock", "pv_pull", "pv_send"}

\* C2 as the spec states it: whenever no processVote is in progress and the
\* Commit votes of a period hold requiredVote votes for a hash other than
\* the skip sentinel, the round is finalized.
C2_QuorumFinalized ==
    NoVoteInProgress =>
        \A per \in DOMAIN votes :
            QuorumHashes(ComVotes(per)) \ {skipBlockHash} # {} => hasOutput

\* The Commit votes of a period hold requiredVote votes for some hash, and
\* not for the skip sentinel.
C2_Decided(m) ==
    QuorumHashes(m) # {} /\ skipBlockHash \notin QuorumHashes(m)

C2_Inv ==
    \A per \in DOMAIN votes :
        C2_Decided(ComVotes(per)) => hasOutput /\ confirmed # <<>>

C2_Step ==
    \A p \in Procs :
        (Leaves(p, "pv_lock") /\ arg[p].Type = VoteCom /\ ~hasOutput) =>
            LET m == votes'[arg[p].Period][VoteCom]
                q == QuorumHashes(m)
            IN  /\ C2_Decided(m) =>
                    /\ hasOutput'
                    /\ Len(confirmed') = Len(confirmed) + 1
                    /\ confirmed'[Len(confirmed')].hash \in q
                    /\ confirmed'[Len(confirmed')].votes = m
                    /\ ret'[p] = "nil" /\ pc'[p] \in {"idle", "rs_replay"}
                /\ q \subseteq {skipBlockHash} =>
                    ~hasOutput' /\ confirmed' = confirmed

\* C2: recording a Commit vote in a round that is not finalized, after which
\* the Commit votes of the vote's period hold requiredVote votes for a hash
\* and not also requiredVote votes for the skip sentinel, finalizes the
\* round and calls ConfirmBlock with a hash that has requiredVote Commit
\* votes in the period (H itself when no other hash has) and exactly the
\* Commit votes recorded for the period; with no such hash, or only the skip
\* sentinel, nothing is confirmed.  Hence a period whose Commit votes hold
\* requiredVote votes for a hash and not for the skip sentinel implies that
\* the round is finalized.
C2_Theorem == []C2_Inv /\ [][C2_Step]_vars

\* Three of four notaries have committed to one block, which was confirmed.
C2_Witness ==
    /\ requiredVote = 3
    /\ hasOutput
    /\ Len(confirmed) = 1
    /\ \E per \in DOMAIN votes :
          /\ QuorumHashes(ComVotes(per)) = {confirmed[1].hash}
          /\ confirmed[1].votes = ComVotes(per)
          /\ Cardinality(DOMAIN ComVotes(per)) = 3

\* The vote recorded under the key of the vote v, if any, has another hash.
C3_Forks(v) ==
    /\ v.Period \in DOMAIN votes
    /\ v.ProposerID \in DOMAIN votes[v.Period][v.Type]
    /\ votes[v.Period][v.Type][v.ProposerID].BlockHash # v.BlockHash

C3_Step ==
    \A p \in Procs :
        /\ Leaves(p, "pv_fork") =>
              IF C3_Forks(arg[p])
              THEN /\ ret'[p] = "ErrForkVote"
                   /\ pc'[p] \in {"idle", "rs_replay"}
                   /\ Untouched /\ UNCHANGED lockVars
              ELSE pc'[p] = "pv_lock" /\ Untouched
        /\ Leaves(p, "pv_lock") =>
              /\ arg[p].Period \in DOMAIN votes'
              /\ votes'[arg[p].Period][arg[p].Type][arg[p].ProposerID] = arg[p]

C3_Keep ==
    \A per \in DOMAIN votes : \A t \in VoteTypes :
        \A n \in DOMAIN votes[per][t] :
            (per \in DOMAIN votes' /\ n \in DOMAIN votes'[per][t]) =>
                votes'[per][t][n] = votes[per][t][n]

\* C3: a vote for the current position that passed the sanity check, and
\* whose (period, type, proposer) already holds a recorded vote with another
\* block hash, makes processVote return ErrForkVote with the instance, the
\* round state and the Receiver's history unchanged; a vote recorded in a
\* round is never replaced by a different one in that round; and every vote
\* that gets past the fork check is recorded, whatever errors came before.
C3_Theorem == [][C3_Step /\ C3_Keep]_vars

\* processVote has just returned ErrForkVote and the vote it forked from is
\* still the recorded one.
C3_Witness ==
    /\ pc[1] = "idle"
    /\ ret[1] = "ErrForkVote"
    /\ \E per \in DOMAIN votes : \E t \in VoteTypes : DOMAIN votes[per][t] # {}

\* The block recorded for the proposer of b, if any, has another hash.
C4_Forks(b) ==
    /\ b.ProposerID \in DOMAIN blocks
    /\ blocks[b.ProposerID].Hash # b.Hash

C4_Step ==
    \A p \in Procs :
        Leaves(p, "pb_aid") =>
            /\ (arg[p].Position = aID /\ C4_Forks(arg[p])) =>
                  /\ ret'[p] = "ErrFork"
                  /\ pc'[p] \in {"idle", "rs_replay"}
                  /\ Untouched
            /\ ret'[p] = "ErrFork" =>
                  arg[p].Position = aID /\ C4_Forks(arg[p])

C4_Keep ==
    \A n \in DOMAIN blocks : n \in DOMAIN blocks' => blocks'[n] = blocks[n]

\* C4: a block at the current position whose proposer already has a block
\* of another hash recorded makes processBlock return ErrFork with the
\* block map, the candidate pool and everything else of the instance
\* unchanged, ErrFork is returned in no other case, and a block recorded in
\* a round is never replaced by a different one in that round.
C4_Theorem == [][C4_Step /\ C4_Keep]_vars

\* processBlock has just returned ErrFork and the proposer's first block is
\* recorded and in the candidate pool.
C4_Witness ==
    /\ pc[1] = "idle"
    /\ ret[1] = "ErrFork"
    /\ \E n \in DOMAIN blocks : blocks[n].Hash \in DOMAIN candidateBlock

\* The vote v is the one recorded under its (period, type, proposer).
InTally(v) ==
    /\ v.Period \in DOMAIN votes
    /\ v.ProposerID \in DOMAIN votes[v.Period][v.Type]
    /\ votes[v.Period][v.Type][v.ProposerID] = v

\* No goroutine is inside restart.
NoRestartInProgress == \A p \in Procs : ~rs[p].active

C5_DropOrBuffer ==
    \A p \in Procs :
        /\ (Leaves(p, "pv_aid") /\ arg[p].Position # aID) =>
              IF ~isStop(aID) /\ aID.Height > arg[p].Position.Height
              THEN /\ ret'[p] = "nil" /\ pc'[p] \in {"idle", "rs_replay"}
                   /\ Untouched /\ UNCHANGED lockVars
              ELSE pc'[p] = "pv_pend" /\ Untouched
        /\ Leaves(p, "pv_pend") =>
              /\ pendingVote' = Append(pendingVote,
                                       [vote |-> arg[p], receivedTime |-> now])
              /\ ret'[p] = "nil"
              /\ UNCHANGED <<dataVars, recvVars, fastForward, hasOutput,
                             pendingBlock, candidateBlock>>

\* The buffer changes in processVote's append and in restart's sweep only;
\* the sweep of a restart to position N takes out, in order, the votes of
\* position N, to replay them, and keeps the votes of newer positions that
\* were received after expireTime.
C5_Sweep ==
    /\ pendingVote' # pendingVote =>
          \E p \in Procs : Leaves(p, "pv_pend") \/ Leaves(p, "rs_sweepV")
    /\ \A p \in Procs :
          Leaves(p, "rs_sweepV") =>
              /\ rs'[p].replayVote =
                    SelectSeq(pendingVote, LAMBDA e : e.vote.Position = rs[p].aID)
              /\ replayed'.votes = rs'[p].replayVote
              /\ pendingVote' =
                    SelectSeq(pendingVote,
                              LAMBDA e : /\ e.vote.Position.Height > rs[p].aID.Height
                                         /\ e.receivedTime > rs[p].expire)

\* restart hands each vote it took out to processVote as it was buffered.
C5_Verbatim ==
    \A p \in Procs :
        (pc[p] = "rs_replay" /\ rs[p].replayVote # <<>> /\ pc'[p] = "pv_aid") =>
            /\ arg'[p] = Head(rs[p].replayVote).vote
            /\ \E i \in 1 .. Len(replayed.votes) : replayed.votes[i].vote = arg'[p]

\* A vote that restart replays and that passes the sanity check is of the
\* current position, goes to the fork check, and is recorded unless a vote
\* of another hash is recorded under its (period, type, proposer).
C5_ReplayRecords ==
    \A p \in Procs :
        rs[p].active =>
            /\ Leaves(p, "pv_aid") => pc'[p] = "pv_fork"
            /\ (Leaves(p, "pv_fork") /\ ~C3_Forks(arg[p])) => pc'[p] = "pv_lock"
            /\ Leaves(p, "pv_lock") =>
                  /\ arg[p].Period \in DOMAIN votes'
                  /\ votes'[arg[p].Period][arg[p].Type][arg[p].ProposerID] = arg[p]

\* Once restart has returned, a replayed vote is recorded if it passes the
\* sanity check of the new round and no vote replayed before it has its
\* (period, type, proposer) with another hash.
C5_Recorded ==
    NoRestartInProgress =>
        \A i \in 1 .. Len(replayed.votes) :
            LET v == replayed.votes[i].vote
            IN  (/\ v.ProposerID \in notarySet /\ v.Signed
                 /\ \A j \in 1 .. (i - 1) :
                       LET w == replayed.votes[j].vote
                       IN  (w.Period = v.Period /\ w.Type = v.Type
                            /\ w.ProposerID = v.ProposerID)
                               => w.BlockHash = v.BlockHash)
                => InTally(v)

C6_Idempotent ==
    [][\A p \in Procs :
          /\ (Leaves(p, "pv_lock") /\ InTally(arg[p])) =>
                /\ ret'[p] = "nil" /\ pc'[p] \in {"idle", "rs_replay"}
                /\ Untouched
          /\ (Leaves(p, "pb_aid") /\ arg[p].Position = aID
              /\ arg[p].ProposerID \in DOMAIN blocks
              /\ blocks[arg[p].ProposerID] = arg[p]) =>
                /\ ret'[p] = "nil" /\ pc'[p] \in {"idle", "rs_replay"}
                /\ Untouched
      ]_vars

\* requiredVote is floor(|notarySet| / 3) * 2 + 1.
C7_Inv ==
    /\ requiredVote = 2 * (Cardinality(notarySet) \div 3) + 1
    /\ Cardinality(notarySet) = 0 => requiredVote = 1
    /\ Cardinality(notarySet) = 4 => requiredVote = 3
    /\ Cardinality(notarySet) = 7 => requiredVote = 5
    /\ Cardinality(notarySet) = 10 => requiredVote = 7

\* requiredVote and the notary set change in the reset of restart only,
\* which takes the notary set it was called with.
C7_Step ==
    (requiredVote' # requiredVote \/ notarySet' # notarySet) =>
        \E p \in Procs : Leaves(p, "rs_lock3") /\ notarySet' = rs[p].notarySet

\* C7: requiredVote is floor(|notarySet| / 3) * 2 + 1 for the notary set of
\* the last restart (3, 5, 7 for 4, 7, 10 notaries, 1 for the empty set of
\* stop), and only the reset of a restart changes it.
C7_Theorem == []C7_Inv /\ [][C7_Step]_vars

\* A round of seven notaries with a vote recorded and requiredVote 5.
C7_Witness ==
    /\ Cardinality(notarySet) = 7
    /\ requiredVote = 5
    /\ \E t \in VoteTypes : votes[1][t] # EmptyMap

\* The PreCommit votes of the period per, after the transition.
PreComVotesAfter(per) == votes'[per][VotePreCom]

\* processVote records, in a round that is not finalized, a PreCommit vote
\* of a period beyond the current one.
C8_Case(p) ==
    /\ Leaves(p, "pv_lock")
    /\ ~hasOutput
    /\ arg[p].Type = VotePreCom
    /\ arg[p].Period > period

\* The call locks on h at the vote's period and goes on to post that period.
C8_Locks(p, h) ==
    /\ lockValue' = h
    /\ lockRound' = arg[p].Period
    /\ pc'[p] = "pv_send"
    /\ tmp'[p] = arg[p].Period

\* C8 as the spec states it: the call locks on every non-skip hash that
\* holds a quorum among the PreCommit votes of the period, and posts the
\* period.
C8_LocksQuorumHash ==
    [][\A p \in Procs :
          C8_Case(p) =>
              \A h \in QuorumHashes(PreComVotesAfter(arg[p].Period)) \ {skipBlockHash} :
                  C8_Locks(p, h)
      ]_vars

C8_Step ==
    \A p \in Procs :
        /\ C8_Case(p) =>
              \A h \in Hashes \ {skipBlockHash} :
                  QuorumHashes(PreComVotesAfter(arg[p].Period)) = {h} =>
                      C8_Locks(p, h)
        /\ Leaves(p, "pv_send") =>
              /\ fastForward' = Append(fastForward, tmp[p])
              /\ ret'[p] = "nil"

\* C8: in a round that is not finalized, recording a PreCommit vote of a
\* period P beyond the current period, after which the PreCommit votes of P
\* hold a quorum on a non-skip hash H and on no other hash, sets the lock
\* value to H and the lock round to P and sends exactly P to the mailbox.
C8_Theorem == [][C8_Step]_vars

\* Period 1, a PreCommit quorum in period 3: locked on it at round 3, and 3
\* is in the mailbox.
C8_Witness ==
    /\ period = 1
    /\ lockRound = 3
    /\ lockValue \in BlockHashes
    /\ fastForward = <<3>>
    /\ QuorumHashes(votes[3][VotePreCom]) = {lockValue}
    /\ pc[1] = "idle"

\* countVote finds no winner.
NoWinner == {[hash |-> nullBlockHash, ok |-> FALSE]}

\* What restart's reset leaves: the round as it is constructed, and for
\* every period and vote type a countVote without winner.
C9_Step ==
    \A p \in Procs :
        Leaves(p, "rs_lock3") =>
            /\ period' = 1
            /\ lockValue' = nullBlockHash
            /\ lockRound' = 1
            /\ ~hasOutput'
            /\ fastForward' = <<>>
            /\ blocks' = EmptyMap
            /\ candidateBlock' = EmptyMap
            /\ DOMAIN votes' = {1}
            /\ \A t \in VoteTypes : votes'[1][t] = EmptyMap
            /\ \A per \in 1 .. 4 : \A t \in VoteTypes :
                  CountVoteNoLock(votes', per, t, requiredVote') = NoWinner
            /\ aID' = rs[p].aID

\* Every vote and block of the round state is of the current position, and
\* countVote has no winner where no vote is recorded.
C9_Inv ==
    /\ \A per \in DOMAIN votes : \A t \in VoteTypes :
          /\ \A n \in DOMAIN votes[per][t] : votes[per][t][n].Position = aID
          /\ votes[per][t] = EmptyMap =>
                CountVoteNoLock(votes, per, t, requiredVote) = NoWinner
    /\ \A n \in DOMAIN blocks : blocks[n].Position = aID
    /\ \A h \in DOMAIN candidateBlock : candidateBlock[h].Position = aID

\* C9: right after the reset of restart the period is 1, the lock value the
\* null hash, the lock round 1, the round not finalized, the mailbox empty,
\* the block map and the candidate pool empty, the tally without a vote and
\* countVote without winner for every period and type; and the round state
\* only ever holds votes and blocks of the current position, countVote
\* having no winner where no vote has been recorded.
C9_Theorem == [][C9_Step]_vars /\ []C9_Inv

\* restart is about to reset a finalized round that holds votes, a block
\* and a candidate.
C9_Witness ==
    /\ pc[1] = "rs_lock3"
    /\ hasOutput
    /\ confirmed # <<>>
    /\ blocks # EmptyMap
    /\ candidateBlock # EmptyMap

\* The lock the goroutine p is waiting for, or "none".
Wanted(p) ==
    CASE pc[p] \in {"rs_lock2", "pv_fork", "pv_lock"} -> "data"
      [] pc[p] = "rs_lock3" -> "blocks"
      [] pc[p] \in {"rs_sweepB", "rs_sweepV", "pv_aid", "pv_pend", "pb_aid", "pb_add"} -> "a"
      [] pc[p] = "pv_pull" /\ PullVotes(votes, arg[p].Period) # {} -> "a"
      [] OTHER -> "none"

\* The goroutine that holds the lock l exclusively, or NoProc.
Holder(l) ==
    CASE l = "a" -> aLock
      [] l = "data" -> dataLock
      [] l = "blocks" -> blocksLock
      [] OTHER -> NoProc

\* C10: no two goroutines ever wait for locks that the other one holds.
C10_NoLockCycle ==
    ~ \E p \in Procs : \E q \in Procs \ {p} :
        /\ Holder(Wanted(p)) = q
        /\ Holder(Wanted(q)) = p

\* C11: a processVote that has a value to post never waits for done(): when
\* it comes to its send the mailbox has room, so that the call returns and
\* releases a.data.lock whether or not an earlier value was drained.
C11_SendFindsRoom ==
    \A p \in Procs : pc[p] = "pv_send" => Len(fastForward) < MailboxCap

\* The errors of sanityCheck.
SanityErrors == {"ErrNotInNotarySet", "ErrIncorrectVoteSignature"}

\* What processVote and processBlock do, past the sanity check, with a
\* message of another position than the current one: nil is returned, at
\* once or after the message went to its buffer.
C12_PastSanity ==
    \A p \in Procs :
        /\ (Leaves(p, "pv_aid") /\ arg[p].Position # aID) =>
              \/ pc'[p] = "pv_pend"
              \/ ret'[p] = "nil" /\ pc'[p] \in {"idle", "rs_replay"}
        /\ Leaves(p, "pv_pend") => ret'[p] = "nil"
        /\ (Leaves(p, "pb_aid") /\ arg[p].Position # aID) =>
              \/ pc'[p] = "pb_read"
              \/ ret'[p] = "nil" /\ pc'[p] \in {"idle", "rs_replay"}
        /\ Leaves(p, "pb_read") => pc'[p] = "pb_write"
        /\ Leaves(p, "pb_write") => ret'[p] = "nil"

C12_Step ==
    /\ C12_PastSanity
    /\ \A p \in Procs : \A v \in Votes :
          (v.Position # aID /\ VoteCall(p, v)) =>
              IF v.ProposerID \in notarySet /\ v.Signed
              THEN pc'[p] = "pv_aid" /\ arg'[p] = v
              ELSE /\ pc'[p] = "idle" /\ ret'[p] \in SanityErrors
                   /\ Untouched
                   /\ (notarySet = {} => ret'[p] = "ErrNotInNotarySet")

C13_OnlyBlocksConfirmed ==
    \A i \in 1 .. Len(confirmed) :
        confirmed[i].hash \notin {skipBlockHash, nullBlockHash}

\* processVote records, in a round that is not finalized, a PreCommit vote
\* of a period that the current period has reached.
C14_Case(p) ==
    /\ Leaves(p, "pv_lock")
    /\ ~hasOutput
    /\ arg[p].Type = VotePreCom
    /\ period >= arg[p].Period

\* What the call does when countVote's winner is w: the lock moves to w at
\* the vote's period and period + 1 is posted exactly if w is not the skip
\* sentinel, the vote's period is beyond the lock round and w is not the
\* lock value.
C14_Effect(p, w) ==
    IF w # skipBlockHash /\ arg[p].Period > lockRound /\ w # lockValue
    THEN /\ lockValue' = w
         /\ lockRound' = arg[p].Period
         /\ pc'[p] = "pv_send"
         /\ tmp'[p] = period + 1
    ELSE /\ lockValue' = lockValue
         /\ lockRound' = lockRound
         /\ pc'[p] # "pv_send"

\* C14: fast-forward condition 1.  When a PreCommit vote of a period P that
\* the current period has reached is recorded and the PreCommit votes of P
\* hold a quorum, then for a winning hash W of that quorum the lock moves to
\* W at round P and period + 1 is posted if and only if W is not the skip
\* sentinel, P is beyond the lock round and W differs from the lock value;
\* the vote's own hash does not matter.
C14_Condition1 ==
    [][\A p \in Procs :
          C14_Case(p) =>
              LET q == QuorumHashes(PreComVotesAfter(arg[p].Period))
              IN  IF q = {}
                  THEN lockValue' = lockValue /\ lockRound' = lockRound
                       /\ pc'[p] # "pv_send"
                  ELSE \E w \in q : C14_Effect(p, w)
      ]_vars

\* The hashes of blocks that the Init, PreCommit and Commit votes of the
\* period per refer to and that are not in the candidate pool.
C15_Wanted(per) ==
    {h \in BlockHashes \ DOMAIN candidateBlock :
        \E t \in {VoteInit, VotePreCom, VoteCom} :
            \E n \in DOMAIN votes[per][t] : votes[per][t][n].BlockHash = h}

\* C15: fast-forward condition 3.  A Commit vote of a period P that is not
\* behind the current period, recorded in a round that is not finalized
\* without finalizing it, with requiredVote Commit votes recorded for P,
\* makes processVote call PullBlocks with each hash of C15_Wanted(P) once
\* and no other hash, and then send P + 1 to the mailbox.
C15_Condition3 ==
    [][\A p \in Procs :
          /\ (/\ Leaves(p, "pv_lock") /\ ~hasOutput /\ ~hasOutput'
              /\ arg[p].Type = VoteCom /\ arg[p].Period >= period
              /\ Cardinality(DOMAIN votes'[arg[p].Period][VoteCom]) >= requiredVote)
                => pc'[p] = "pv_pull"
          /\ Leaves(p, "pv_pull") =>
                /\ Len(pulled') = Len(pulled) + 1
                /\ DOMAIN pulled'[Len(pulled')] = C15_Wanted(arg[p].Period)
                /\ \A h \in DOMAIN pulled'[Len(pulled')] :
                      pulled'[Len(pulled')][h] = 1
                /\ pc'[p] = "pv_send"
                /\ tmp'[p] = arg[p].Period + 1
      ]_vars

\* Everything but the mailbox, the period, the tally and the state machine.
C16_Frame ==
    UNCHANGED <<aID, notarySet, hasOutput, pendingBlock, pendingVote,
                candidateBlock, lockValue, lockRound, requiredVote, blocks,
                lockVars, recvVars>>

C16_Step ==
    \A p \in Procs :
        /\ DoneCall(p) =>
              /\ Untouched /\ UNCHANGED lockVars
              /\ IF hasOutput
                 THEN pc'[p] = "idle" /\ ret'[p] = "signal"
                 ELSE pc'[p] = "dn_recv"
        /\ Leaves(p, "dn_recv") =>
              /\ pc'[p] = "idle"
              /\ C16_Frame
              /\ IF fastForward # <<>> /\ Head(fastForward) > period
                 THEN /\ fastForward' = Tail(fastForward)
                      /\ period' = Head(fastForward)
                      /\ DOMAIN votes' = DOMAIN votes \cup ((period + 1) .. period')
                      /\ \A i \in DOMAIN votes : votes'[i] = votes[i]
                      /\ \A i \in DOMAIN votes' \ DOMAIN votes :
                            \A t \in VoteTypes : votes'[i][t] = EmptyMap
                      /\ state' = "preCommit"
                      /\ ret'[p] = "signal"
                 ELSE /\ fastForward' = IF fastForward = <<>> THEN <<>>
                                        ELSE Tail(fastForward)
                      /\ UNCHANGED <<period, votes, state>>
                      /\ ret'[p] = "nosignal"

\* done() has no statement that waits: its select can always be taken.
C16_NeverBlocks ==
    \A p \in Procs : pc[p] = "dn_recv" => ENABLED DoneReceive(p)

C17_LockRoundWithinPeriod == lockRound <= period

\* C17: the lock round is never beyond the current period, unless a
\* fast-forward to the lock round or beyond is in the mailbox or is being
\* sent by a processVote: condition 2 moves the lock round to the period of
\* the vote, beyond the current period, and posts that period for done()
\* to adopt.
C17_Inv ==
    \/ lockRound <= period
    \/ fastForward # <<>> /\ Head(fastForward) >= lockRound
    \/ \E p \in Procs : pc[p] = "pv_send" /\ tmp[p] >= lockRound

\* Condition 2 has moved the lock round to 2, which is in the mailbox, and
\* done() has not been called: the period is 1.
C17_Witness ==
    /\ pc[1] = "idle"
    /\ period = 1
    /\ lockRound = 2
    /\ fastForward = <<2>>

C18_Step ==
    /\ \/ period' >= period
       \/ \E p \in Procs : Leaves(p, "rs_lock3") /\ period' = 1
    /\ period' # period =>
          \E p \in Procs : Leaves(p, "dn_recv") \/ Leaves(p, "rs_lock3")

\* C18: within a round the period never decreases: every step of
\* processVote and processBlock leaves it as it is, a step of done() leaves
\* it or makes it larger, and only the reset of restart sets it back to 1.
C18_Theorem == [][C18_Step]_vars

\* done() found in the mailbox a period behind the current one, posted by
\* a processVote that had waited at its send, and did not adopt it.
C18_Witness ==
    /\ period = 3
    /\ lockRound = 2
    /\ fastForward = <<>>
    /\ \E p \in Procs : pc[p] = "idle" /\ ret[p] = "nosignal"

\* The position of a pending entry, a block's or a vote's.
EntryPosition(e) ==
    IF "vote" \in DOMAIN e THEN e.vote.Position ELSE e.block.Position

\* The entries of the buffer buf that a restart to position n replays, and
\* those it keeps when it discards what was received at cutoff or before.
C19_Replayed(buf, n) ==
    SelectSeq(buf, LAMBDA e : ~Newer(n, EntryPosition(e)) /\ EntryPosition(e) = n)

C19_Kept(buf, n, cutoff) ==
    SelectSeq(buf, LAMBDA e : /\ ~Newer(n, EntryPosition(e))
                              /\ EntryPosition(e) # n
                              /\ e.receivedTime > cutoff)

\* The sweeps of a restart to rs[p].aID: the cutoff is 10 seconds before the
\* clock that restart reads, the block sweep and the vote sweep each split
\* their buffer into the replayed and the kept entries, in their order.
C19_Sweep(p) ==
    /\ (Leaves(p, "rs_lock3") /\ pc'[p] = "rs_sweepB") =>
          /\ rs'[p].expire = now - ExpireSeconds
          /\ rs'[p].aID = rs[p].aID
          /\ UNCHANGED <<pendingBlock, pendingVote>>
    /\ Leaves(p, "rs_sweepB") =>
          /\ rs'[p].replayBlock = C19_Replayed(pendingBlock, rs[p].aID)
          /\ tmp'[p] = C19_Kept(pendingBlock, rs[p].aID, rs[p].expire)
          /\ UNCHANGED <<pendingBlock, pendingVote>>
    /\ Leaves(p, "rs_sweepB2") =>
          /\ pendingBlock' = C19_Kept(pendingBlock, rs[p].aID, rs[p].expire)
          /\ rs'[p] = rs[p]
          /\ UNCHANGED pendingVote
    /\ Leaves(p, "rs_sweepV") =>
          /\ rs'[p].replayVote = C19_Replayed(pendingVote, rs[p].aID)
          /\ pendingVote' = C19_Kept(pendingVote, rs[p].aID, rs[p].expire)
          /\ rs'[p].replayBlock = rs[p].replayBlock
          /\ UNCHANGED pendingBlock

\* The replays of a restart: each call it makes takes the first entry left,
\* a block while there is one, a vote after that; processBlock starts with
\* that block, processVote with that vote (or returns what sanityCheck
\* makes of it); restart returns when none is left.
C19_Replay(p) ==
    (pc[p] = "rs_replay" /\ rs'[p] # rs[p]) =>
        IF ~rs'[p].active
        THEN rs[p].replayBlock = <<>> /\ rs[p].replayVote = <<>>
        ELSE IF rs[p].replayBlock # <<>>
        THEN /\ rs'[p] = [rs[p] EXCEPT !.replayBlock = Tail(@)]
             /\ pc'[p] = "pb_aid"
             /\ arg'[p] = Head(rs[p].replayBlock).block
        ELSE /\ rs[p].replayVote # <<>>
             /\ rs'[p] = [rs[p] EXCEPT !.replayVote = Tail(@)]
             /\ LET v == Head(rs[p].replayVote).vote
                IN  \/ pc'[p] = "pv_aid" /\ arg'[p] = v
                    \/ /\ pc'[p] = "rs_replay"
                       /\ ret'[p] = SanityCheck(notarySet, v)
                       /\ ret'[p] # "nil"

\* C19: a restart to a position N that is not the stop position discards
\* every pending block and vote of a position N is newer than, replays
\* those of position N, keeps those of another position received less than
\* 10 seconds before and discards the rest; the buffers then hold the kept
\* entries in their order, and the replayed entries are fed to processBlock
\* and processVote in their order, the blocks before the votes.
C19_Theorem == [][\A p \in Procs : C19_Sweep(p) /\ C19_Replay(p)]_vars

\* A restart to position 1 has swept two pending blocks: the one of
\* position 1 is being replayed, the one of position 2 is kept in the buffer.
C19_Witness ==
    /\ pc[1] = "pb_aid"
    /\ rs[1].active
    /\ aID = Pos(1)
    /\ arg[1].Position = Pos(1)
    /\ Len(pendingBlock) = 1
    /\ pendingBlock[1].block.Position = Pos(2)

\* C20: every vote recorded in the tally is of the instance's current
\* position, also while restart runs concurrently with processVote: a
\* processVote that read the position before a restart does not record
\* its vote in the tally of the new round.
C20_TallyOfCurrentPosition ==
    \A v \in Votes \cup ConcVotes : InTally(v) => v.Position = aID

\* ------------------------------------------------------------------ C21
\* C21: one vote per (proposer, period, type), also when processVote calls
\* run concurrently: within a round the block hash recorded under a
\* (period, type, proposer) key never changes once it is set.
C21_HashNeverChanges ==
    [][\/ \E p \in Procs : Leaves(p, "rs_lock3")
       \/ \A per \in DOMAIN votes : \A t \in VoteTypes :
             \A n \in DOMAIN votes[per][t] :
                /\ per \in DOMAIN votes'
                /\ n \in DOMAIN votes'[per][t]
                /\ votes'[per][t][n].BlockHash = votes[per][t][n].BlockHash]_vars

\* ------------------------------------------------------------------ C22
\* The entry e, in a pending buffer when the sweep of the restart of p
\* stores the buffer anew, is accounted for: one of the restart's position
\* is in its replay list, one the sweep rules keep is in the new buffer.
C22_Accounted(p, e, replay, kept) ==
    /\ EntryPosition(e) = rs[p].aID =>
          \E i \in DOMAIN replay : replay[i] = e
    /\ ( /\ EntryPosition(e) # rs[p].aID
         /\ ~Newer(rs[p].aID, EntryPosition(e))
         /\ e.receivedTime > rs[p].expire ) =>
          \E i \in DOMAIN kept : kept[i] = e

\* C22: buffering is atomic with respect to the sweep of a concurrent
\* restart: no pending block or vote is lost; each entry in a buffer when
\* the sweep replaces the buffer is replayed, discarded by the sweep rules
\* or still in the buffer.
C22_NeverLost ==
    [][\A p \in Procs :
        /\ Leaves(p, "rs_sweepB2") =>
              \A i \in DOMAIN pendingBlock :
                 C22_Accounted(p, pendingBlock[i], rs'[p].replayBlock, pendingBlock')
        /\ Leaves(p, "rs_sweepV") =>
              \A i \in DOMAIN pendingVote :
                 C22_Accounted(p, pendingVote[i], rs'[p].replayVote, pendingVote')]_vars

\* ------------------------------------------------------------------ C23
\* What a step of processVote leaves alone in a finalized round.
C23_Frame ==
    UNCHANGED <<hasOutput, lockValue, lockRound, period, fastForward,
                confirmed, pulled>>

\* The goroutine p is inside processVote with a vote of the current position.
C23_InVote(p) ==
    pc[p] \in {"pv_aid", "pv_fork", "pv_lock"} /\ arg[p].Position = aID

\* The restart of p replays a vote: it calls processVote with it.
C23_Replayed(p) ==
    /\ pc[p] = "rs_replay"
    /\ rs[p].replayBlock = <<>>
    /\ rs'[p].active
    /\ rs'[p] # rs[p]

\* C23 as the spec states it: once the round is finalized every processVote
\* call for the current position returns success and changes nothing:
\* tally, lock value and round, period and mailbox stay, and neither
\* ConfirmBlock nor PullBlocks is called.
C23_NoOp ==
    [][\A p \in Procs : hasOutput =>
        /\ \A v \in Votes : (v.Position = aID /\ VoteCall(p, v)) =>
              /\ C23_Frame /\ votes' = votes
              /\ ret'[p] \in {"none", "nil"}
        /\ C23_Replayed(p) =>
              /\ C23_Frame /\ votes' = votes
              /\ ret'[p] \in {"none", "nil"}
        /\ (C23_InVote(p) /\ pc'[p] # pc[p]) =>
              /\ C23_Frame /\ votes' = votes
              /\ ret'[p] \in {"none", "nil"}
              /\ pc'[p] \notin {"pv_pull", "pv_send"}]_vars

C23_Step(p) ==
    /\ \A v \in Votes : (v.Position = aID /\ VoteCall(p, v)) =>
          /\ C23_Frame /\ votes' = votes
          /\ IF v.ProposerID \in notarySet /\ v.Signed
             THEN pc'[p] = "pv_aid" /\ arg'[p] = v
             ELSE pc'[p] = "idle" /\ ret'[p] \in SanityErrors
    /\ C23_Replayed(p) =>
          /\ C23_Frame /\ votes' = votes
          /\ \/ pc'[p] = "pv_aid"
             \/ pc'[p] = "rs_replay" /\ ret'[p] \in SanityErrors
    /\ (C23_InVote(p) /\ Leaves(p, "pv_aid")) =>
          C23_Frame /\ votes' = votes /\ pc'[p] = "pv_fork"
    /\ (C23_InVote(p) /\ Leaves(p, "pv_fork")) =>
          /\ C23_Frame /\ votes' = votes
          /\ IF ForkVoteOf(votes, arg[p]) # {}
             THEN ret'[p] = "ErrForkVote" /\ pc'[p] \in {"idle", "rs_replay"}
             ELSE pc'[p] = "pv_lock"
    /\ (C23_InVote(p) /\ Leaves(p, "pv_lock")) =>
          /\ C23_Frame
          /\ votes' = RecordVote(votes, arg[p])
          /\ ret'[p] = "nil" /\ pc'[p] \in {"idle", "rs_replay"}

\* C23: once the round is finalized, a processVote call for the current
\* position changes nothing but the tally: a vote that passes the sanity
\* check and the fork check is recorded under its (period, type, proposer)
\* and nil is returned; one that fails either is rejected with that error
\* and nothing changes.  In every case the finalized flag, lock value and
\* round, period and mailbox stay, and neither ConfirmBlock nor PullBlocks
\* is called.
C23_Theorem == [][\A p \in Procs : hasOutput => C23_Step(p)]_vars

\* The round was finalized with one Commit vote handed to ConfirmBlock; the
\* Commit vote of another notary, received afterwards, is in the tally and
\* its call returned nil.
C23_Witness ==
    /\ hasOutput
    /\ Len(confirmed) = 1
    /\ pc[1] = "idle"
    /\ ret[1] = "nil"
    /\ \E per \in DOMAIN votes :
          \E n \in DOMAIN votes[per][VoteCom] :
              n \notin DOMAIN confirmed[1].votes

\* ------------------------------------------------------------------ C24
\* At most one hash has requiredVote votes in each bucket of the tally, and
\* countVote has one result.
C24_Unique ==
    \A per \in DOMAIN votes : \A t \in VoteTypes :
        /\ Cardinality(QuorumHashes(votes[per][t])) <= 1
        /\ Cardinality(CountVoteNoLock(votes, per, t, requiredVote)) = 1

\* C24 as the spec states it: for every notary set, every bucket that
\* processVote fills holds requiredVote votes for at most one block hash.
C24_QuorumUnique == C24_Unique

\* C24: quorum uniqueness for every notary set that has not exactly two
\* members: in each (period, type) bucket that processVote fills, every
\* notary having at most one vote in it, at most one block hash has
\* requiredVote votes, so that countVote's result is determined by what
\* the bucket holds.  With two notaries requiredVote is 1 and two hashes
\* reach it.
C24_Inv == Cardinality(notarySet) # 2 => C24_Unique

\* Five notaries have voted, three for one block and two for the other:
\* the first block is the only one at the quorum of three.
C24_Witness ==
    /\ Cardinality(notarySet) = 5
    /\ pc[1] = "idle"
    /\ Cardinality(DOMAIN votes[1][VotePreCom]) = 5
    /\ QuorumHashes(votes[1][VotePreCom]) = {"H1"}
    /\ CountFor(votes[1][VotePreCom], "H2") = 2

\* ------------------------------------------------------------------ C25
\* processBlock with a block of the current position whose proposer has no
\* block recorded: the leader selector rejects it, its error is returned
\* and nothing changes; or it accepts it, the block is recorded under its
\* proposer and then, under its hash, in the candidate pool, and nil is
\* returned.
C25_Step(p) ==
    /\ ( /\ Leaves(p, "pb_aid")
         /\ arg[p].Position = aID
         /\ arg[p].ProposerID \notin DOMAIN blocks ) =>
          \/ /\ ret'[p] = "ErrLeader"
             /\ pc'[p] \in {"idle", "rs_replay"}
             /\ Untouched
          \/ /\ pc'[p] = "pb_add"
             /\ arg'[p] = arg[p]
             /\ blocks' = MapPut(blocks, arg[p].ProposerID, arg[p])
             /\ candidateBlock' = candidateBlock
    /\ Leaves(p, "pb_add") =>
          /\ candidateBlock' = MapPut(candidateBlock, arg[p].Hash, arg[p])
          /\ blocks' = blocks
          /\ ret'[p] = "nil"
          /\ pc'[p] \in {"idle", "rs_replay"}

\* The block map and the pool change in those steps and in the reset of
\* restart only, and ErrLeader is returned with nothing changed.
C25_Only ==
    /\ blocks' # blocks =>
          \E p \in Procs : \/ Leaves(p, "rs_lock3")
                            \/ (Leaves(p, "pb_aid") /\ pc'[p] = "pb_add")
    /\ candidateBlock' # candidateBlock =>
          \E p \in Procs : Leaves(p, "rs_lock3") \/ Leaves(p, "pb_add")
    /\ \A p \in Procs : (ret'[p] = "ErrLeader" /\ ret[p] # "ErrLeader") => Untouched

\* Every block of the per-proposer map is of the current position and,
\* once the processBlock that recorded it has returned, in the candidate
\* pool under its hash.
C25_Inv ==
    \A n \in DOMAIN blocks :
        /\ blocks[n].Position = aID
        /\ blocks[n].ProposerID = n
        /\ \/ \E p \in Procs : pc[p] = "pb_add" /\ arg[p] = blocks[n]
           \/ /\ blocks[n].Hash \in DOMAIN candidateBlock
              /\ candidateBlock[blocks[n].Hash] = blocks[n]

\* C25: processBlock records a block of the current position only after
\* the leader selector has accepted it: rejected, its error is returned
\* and neither the per-proposer block map nor the candidate pool changes;
\* accepted, the block is stored under its proposer and under its hash in
\* the pool.  Hence every block of the per-proposer map has the current
\* position, was accepted, and is in the pool under its hash once the call
\* that recorded it has returned.
C25_Theorem == [][(\A p \in Procs : C25_Step(p)) /\ C25_Only]_vars /\ []C25_Inv

\* processBlock has returned nil for a block of node 1 at position 1 that
\* the leader selector accepted: it is in the block map and in the pool.
C25_Witness ==
    /\ pc[1] = "idle"
    /\ ret[1] = "nil"
    /\ aID = Pos(1)
    /\ 1 \in DOMAIN blocks
    /\ blocks[1].Hash \in DOMAIN candidateBlock

\* ------------------------------------------------------------------ C26
\* The writer list of table t is consistent with the accounts inserted and
\* not deleted since: it holds exactly those, each once; the Length header
\* is their number; the account at list index i has the reverse index
\* i + 1 and every other account the reverse index 0; IsTableWriter holds
\* of exactly the listed accounts.
C26_Consistent(t) ==
    LET w   == LoadTableWriters(stateDB, t)
        rev(acc) == loadTableWriterRevIdx(stateDB,
                        getTableWriterRevIdxPathHash(t, acc))
    IN  /\ {w[i] : i \in DOMAIN w} = granted[t]
        /\ Len(w) = Cardinality(granted[t])
        /\ loadTableWritersLength(stateDB, getTableWritersPathHash(t)) = Len(w)
        /\ \A i \in DOMAIN w : rev(w[i]) = i
        /\ \A acc \in Accounts \ granted[t] : rev(acc) = 0
        /\ \A acc \in Accounts : IsTableWriter(stateDB, t, acc) <=> acc \in granted[t]

\* Inserting an account that is a writer and deleting one that is not
\* change no slot, and a call on one table changes no slot of another.
C26_Step ==
    /\ ( /\ call' # call
         /\ \/ call'.op = "insert" /\ call'.account \in granted[call'.table]
            \/ call'.op = "delete" /\ call'.account \notin granted[call'.table] ) =>
          stateDB' = stateDB
    /\ \A t \in TableRefs :
          granted'[t] = granted[t] =>
              LoadTableWriters(stateDB', t) = LoadTableWriters(stateDB, t)

\* C26: after any sequence of InsertTableWriter and DeleteTableWriter calls
\* on a table, the stored writer list holds exactly the accounts inserted
\* and not deleted since, without duplicates, the Length header is their
\* number, the account at index i has the reverse index i + 1, every
\* account not listed has the reverse index 0, IsTableWriter is true of
\* exactly the listed accounts, and inserting a writer again or deleting
\* an account that is no writer changes no slot.
C26_Theorem == [](\A t \in TableRefs : C26_Consistent(t)) /\ [][C26_Step]_vars

\* Three writers were inserted into table 0 and the first of them has just
\* been deleted: the last was moved to index 0, and two are listed.
C26_Witness ==
    /\ call = [op |-> "delete", table |-> 0, account |-> Address(0)]
    /\ LoadTableWriters(stateDB, 0) = <<Address(2), Address(1)>>
    /\ granted[0] = {Address(1), Address(2)}
====
